---- MODULE Spec2Model ----
(***************************************************************************)
(* A model of repo_flattener (src/repo_flattener/core.py): the scanner      *)
(* scan_repository, the flattener process_repository with its manifest     *)
(* builder create_manifest, and the pure function sanitize_filename.       *)
(*                                                                         *)
(* A Python str is a sequence of one-character strings, so that suffix     *)
(* tests, splitting, joining, replacing and ordering are computed, not     *)
(* assumed.  A Python list is a sequence; None is the record NoneV.        *)
(***************************************************************************)
EXTENDS Naturals, Integers, Sequences, FiniteSets, TLC

\* ------------------------------------------------------------------ bounds

\* The repository of a SpecScan behaviour holds at most this many files.
MaxScanFiles == 3
\* The repository of a Spec behaviour holds at most this many files.
MaxFiles == 2
\* The explicit file_list given to process_repository has at most this length.
MaxList == 2
\* sanitize_filename is applied to every string of at most this length.
MaxLen == 3
\* create_manifest, called alone, is given at most this many paths.
MaxPaths == 3
\* interactive_file_selection reads at most this many lines.
MaxCmds == 3

\* ------------------------------------------------------- Python str, list

\* The characters of the model in code-point order (str comparison, sorted()).
AsciiOrder ==
  << "\"", "*", ".", "/", ":", "<", ">", "?", "\\", "_",
     "a", "b", "c", "d", "e", "f", "g", "h", "i", "j", "k", "l", "m",
     "n", "o", "p", "q", "r", "s", "t", "u", "v", "w", "x", "y", "z", "|" >>

Ord(c) == CHOOSE i \in 1..Len(AsciiOrder) : AsciiOrder[i] = c

Range(l) == { l[i] : i \in 1..Len(l) }

\* x in l, for a list l
InList(x, l) == \E i \in 1..Len(l) : l[i] = x

\* s < t on str: lexicographic by code point
RECURSIVE StrLt(_, _)
StrLt(s, t) ==
  IF t = << >> THEN FALSE
  ELSE IF s = << >> THEN TRUE
  ELSE IF Head(s) = Head(t) THEN StrLt(Tail(s), Tail(t))
  ELSE Ord(Head(s)) < Ord(Head(t))

RECURSIVE InsertSorted(_, _)
InsertSorted(x, l) ==
  IF l = << >> THEN << x >>
  ELSE IF StrLt(x, Head(l)) THEN << x >> \o l
  ELSE << Head(l) >> \o InsertSorted(x, Tail(l))

\* sorted(l) for a list of str
RECURSIVE sorted(_)
sorted(l) == IF l = << >> THEN << >> ELSE InsertSorted(Head(l), sorted(Tail(l)))

\* s.startswith(p), s.endswith(p)
startswith(s, p) == Len(p) <= Len(s) /\ SubSeq(s, 1, Len(p)) = p
endswith(s, p) == Len(p) <= Len(s) /\ SubSeq(s, Len(s) - Len(p) + 1, Len(s)) = p

\* s.replace(c, d) for one-character c and d
replace(s, c, d) == [ i \in 1..Len(s) |-> IF s[i] = c THEN d ELSE s[i] ]

\* s.split(sep) for a one-character sep
RECURSIVE split(_, _)
split(s, sep) ==
  IF \A i \in 1..Len(s) : s[i] # sep THEN << s >>
  ELSE LET i == CHOOSE k \in 1..Len(s) : s[k] = sep /\ \A j \in 1..(k - 1) : s[j] # sep
       IN << SubSeq(s, 1, i - 1) >> \o split(SubSeq(s, i + 1, Len(s)), sep)

\* sep.join(parts)
RECURSIVE join(_, _)
join(sep, parts) ==
  IF parts = << >> THEN << >>
  ELSE IF Len(parts) = 1 THEN parts[1]
  ELSE parts[1] \o sep \o join(sep, Tail(parts))

\* The orders in which a set can be listed.
Perms(S) ==
  { f \in [1..Cardinality(S) -> S] : \A i, j \in 1..Cardinality(S) : f[i] = f[j] => i = j }

NoneV == [some |-> FALSE, v |-> << >>]
Some(x) == [some |-> TRUE, v |-> x]

\* ------------------------------------------------------------- os.path

Slash == << "/" >>
DotDot == << ".", "." >>
Dot == << "." >>

\* os.path.join(a, b)
os_path_join(a, b) ==
  IF startswith(b, Slash) THEN b
  ELSE IF a = << >> \/ a[Len(a)] = "/" THEN a \o b
  ELSE a \o Slash \o b

\* posixpath.normpath's loop over the components
RECURSIVE NormComps(_, _, _)
NormComps(comps, new_comps, initial_slashes) ==
  IF comps = << >> THEN new_comps
  ELSE LET comp == Head(comps) IN
    IF comp = << >> \/ comp = Dot THEN NormComps(Tail(comps), new_comps, initial_slashes)
    ELSE IF comp # DotDot
            \/ (~initial_slashes /\ new_comps = << >>)
            \/ (new_comps # << >> /\ new_comps[Len(new_comps)] = DotDot)
         THEN NormComps(Tail(comps), Append(new_comps, comp), initial_slashes)
    ELSE IF new_comps # << >>
         THEN NormComps(Tail(comps), SubSeq(new_comps, 1, Len(new_comps) - 1), initial_slashes)
    ELSE NormComps(Tail(comps), new_comps, initial_slashes)

normpath(path) ==
  LET initial_slashes == startswith(path, Slash)
      p == join(Slash, NormComps(split(path, "/"), << >>, initial_slashes))
      q == IF initial_slashes THEN Slash \o p ELSE p
  IN IF q = << >> THEN Dot ELSE q

\* The working directory of the process.
Cwd == Slash

\* os.path.abspath(path)
abspath(path) == normpath(os_path_join(Cwd, path))

NonEmptyComps(path) == SelectSeq(split(path, "/"), LAMBDA c : c # << >>)

RECURSIVE CommonPrefixLen(_, _)
CommonPrefixLen(a, b) ==
  IF a = << >> \/ b = << >> \/ Head(a) # Head(b) THEN 0
  ELSE 1 + CommonPrefixLen(Tail(a), Tail(b))

\* os.path.relpath(path, start)
relpath(path, start) ==
  LET start_list == NonEmptyComps(abspath(start))
      path_list == NonEmptyComps(abspath(path))
      i == CommonPrefixLen(start_list, path_list)
      rel_list == [ k \in 1..(Len(start_list) - i) |-> DotDot ]
                    \o SubSeq(path_list, i + 1, Len(path_list))
  IN IF rel_list = << >> THEN Dot ELSE join(Slash, rel_list)


\* ------------------------------------------------------------ file system

\* A file system is a function from absolute paths, as sequences of names, to
\* nodes [type: "dir" | "file" | "link", perm, target]: perm is the owner's
\* read permission (and, of a directory, its search permission), for a caller
\* who is not root; target is the text of a symbolic link.
IsPrefix(p, q) == Len(p) <= Len(q) /\ SubSeq(q, 1, Len(p)) = p

Parent(p) == IF p = << >> THEN p ELSE SubSeq(p, 1, Len(p) - 1)

Failed(e) == [ok |-> FALSE, p |-> << >>, err |-> e]

\* The kernel's path resolution, one component at a time.  A symbolic link on
\* the way is followed; the last component is followed when `follow` (stat,
\* open) and not otherwise (lstat).  The links of the model point to no link.
RECURSIVE ResolveFrom(_, _, _, _)
ResolveFrom(f, cur, comps, follow) ==
  IF comps = << >> THEN [ok |-> TRUE, p |-> cur, err |-> ""]
  ELSE IF f[cur].type # "dir" THEN Failed("ENOTDIR")
  ELSE IF ~f[cur].perm THEN Failed("EACCES")
  ELSE LET c == Head(comps)
           nxt == Append(cur, c)
       IN
    IF c = << >> \/ c = Dot THEN ResolveFrom(f, cur, Tail(comps), follow)
    ELSE IF c = DotDot THEN ResolveFrom(f, Parent(cur), Tail(comps), follow)
    ELSE IF nxt \notin DOMAIN f THEN Failed("ENOENT")
    ELSE IF f[nxt].type = "link" /\ (follow \/ Tail(comps) # << >>)
         THEN ResolveFrom(f, IF startswith(f[nxt].target, Slash) THEN << >> ELSE cur,
                          split(f[nxt].target, "/") \o Tail(comps), follow)
    ELSE ResolveFrom(f, nxt, Tail(comps), follow)

Resolve(f, path) ==
  IF path = << >> THEN Failed("ENOENT") ELSE ResolveFrom(f, << >>, split(path, "/"), TRUE)

\* os.path.islink(path)
os_path_islink(f, path) ==
  LET r == IF path = << >> THEN Failed("ENOENT")
           ELSE ResolveFrom(f, << >>, split(path, "/"), FALSE)
  IN r.ok /\ f[r.p].type = "link"

os_path_exists(f, path) == Resolve(f, path).ok

os_path_isdir(f, path) ==
  LET r == Resolve(f, path) IN r.ok /\ f[r.p].type = "dir"

\* os.access(path, os.R_OK)
os_access_R_OK(f, path) ==
  LET r == Resolve(f, path) IN r.ok /\ f[r.p].perm

\* open(path, 'r').read(): the file read, or the OSError raised
open_read(f, path) ==
  LET r == Resolve(f, path) IN
    IF ~r.ok THEN r
    ELSE IF f[r.p].type = "dir" THEN Failed("EISDIR")
    ELSE IF ~f[r.p].perm THEN Failed("EACCES")
    ELSE r

\* DirEntry.is_dir(): of the entry itself, or of what a symbolic link leads to
is_dir(f, q) ==
  LET r == ResolveFrom(f, Parent(q), << q[Len(q)] >>, TRUE) IN r.ok /\ f[r.p].type = "dir"

\* os.scandir(top) as os.walk uses it: the names of the directories and of the
\* other entries; a directory that cannot be listed yields nothing (os.walk's
\* onerror is None).
scandir(f, top) ==
  LET r == Resolve(f, top)
      listable == r.ok /\ f[r.p].type = "dir" /\ f[r.p].perm
      ents == IF listable
              THEN { q \in DOMAIN f : Len(q) = Len(r.p) + 1 /\ IsPrefix(r.p, q) }
              ELSE { }
  IN [ dirs |-> { q[Len(q)] : q \in { e \in ents : is_dir(f, e) } },
       nondirs |-> { q[Len(q)] : q \in { e \in ents : ~is_dir(f, e) } } ]

\* ------------------------------------------------------------ the names

n_a == << "a" >>
n_b == << "b" >>
n_f == << "f" >>
n_k == << "k" >>
n_l == << "l" >>
n_dl == << "d", "l" >>
n_r == << "r" >>
n_u == << "u" >>
n_x == << "x" >>
n_a_b == << "a", "_", "b" >>
n_env == << "e", "n", "v" >>
n_m_o == << "m", ".", "o" >>
n_dot_o == << ".", "o" >>
n_manifest ==
  << "f", "i", "l", "e", "_", "m", "a", "n", "i", "f", "e", "s", "t", ".", "t", "x", "t" >>

Node(type, perm) == [type |-> type, perm |-> perm, target |-> << >>]

\* The file systems of the model: a readable directory /r (the repository), a
\* regular file /f beside it, a directory /u without permissions holding a file,
\* no /nx, and under /r the files and links of a set of candidates.
BaseNodes ==
  ( << >> :> Node("dir", TRUE) )
    @@ ( << n_r >> :> Node("dir", TRUE) )
    @@ ( << n_f >> :> Node("file", TRUE) )
    @@ ( << n_u >> :> Node("dir", FALSE) )
    @@ ( << n_u, n_x >> :> Node("file", TRUE) )

\* Candidates: a file at /r/<rel> with that read permission, or a symbolic
\* link at /r/<rel> with that text.
Cand(rel, perm) == [rel |-> rel, perm |-> perm, target |-> << >>]
LinkCand(rel, target) == [rel |-> rel, perm |-> TRUE, target |-> target]

\* l leads to the file /f outside the repository, dl to the directory a.
Links == { LinkCand(<< n_l >>, << ".", ".", "/", "f" >>), LinkCand(<< n_dl >>, n_a) }

ScanPool ==
  { Cand(<< n_a, n_b >>, TRUE), Cand(<< n_a_b >>, TRUE), Cand(<< n_env >>, TRUE),
    Cand(<< n_env, n_x >>, TRUE), Cand(<< n_a, n_env, n_x >>, TRUE),
    Cand(<< n_m_o >>, TRUE), Cand(<< n_dot_o >>, TRUE) } \cup Links

ProcPool ==
  { Cand(<< n_a, n_b >>, TRUE), Cand(<< n_a_b >>, TRUE), Cand(<< n_k >>, FALSE),
    Cand(<< n_env, n_x >>, TRUE), Cand(<< n_m_o >>, TRUE), Cand(<< n_manifest >>, TRUE) }
    \cup Links

\* No candidate is both a file and a directory on the way to another.
Consistent(S) ==
  \A c1, c2 \in S : c1 # c2 => ~IsPrefix(c1.rel, c2.rel)

MakeFs(S) ==
  LET filePaths == { << n_r >> \o c.rel : c \in S }
      dirPaths == UNION { { << n_r >> \o SubSeq(c.rel, 1, k) : k \in 0..(Len(c.rel) - 1) } : c \in S }
      candOf(q) == CHOOSE c \in S : << n_r >> \o c.rel = q
  IN [ q \in filePaths |->
         IF candOf(q).target = << >> THEN Node("file", candOf(q).perm)
         ELSE [type |-> "link", perm |-> TRUE, target |-> candOf(q).target] ]
       @@ [ q \in dirPaths |-> Node("dir", TRUE) ]
       @@ BaseNodes

FileSystems(pool, n) ==
  { MakeFs(S) : S \in { T \in SUBSET pool : Cardinality(T) <= n /\ Consistent(T) } }


\* ----------------------------------------------------- module-level state

\* IGNORE_DIRS as the module is loaded
DefaultIgnoreDirs ==
  << << ".", "g", "i", "t" >>,
     << "n", "o", "d", "e", "_", "m", "o", "d", "u", "l", "e", "s" >>,
     << "_", "_", "p", "y", "c", "a", "c", "h", "e" >>,
     << ".", "i", "d", "e", "a" >>,
     << ".", "v", "s", "c", "o", "d", "e" >>,
     << "v", "e", "n", "v" >>,
     << "e", "n", "v" >>,
     << ".", "e", "n", "v" >> >>

\* IGNORE_EXTS as the module is loaded
DefaultIgnoreExts ==
  << << ".", "p", "y", "c" >>,
     << ".", "c", "l", "a", "s", "s" >>,
     << ".", "o" >>,
     << ".", "s", "o" >>,
     << ".", "d", "l", "l" >>,
     << ".", "e", "x", "e" >>,
     << ".", "j", "a", "r" >>,
     << ".", "w", "a", "r" >> >>

\* ------------------------------------------------------ sanitize_filename

\* The character class [\\/*?:"<>|] of the regular expression
InvalidChars == { "\\", "/", "*", "?", ":", "\"", "<", ">", "|" }

\* re.sub(<one-character class>, repl, s)
RECURSIVE re_sub(_, _, _)
re_sub(class, repl, s) ==
  IF s = << >> THEN << >>
  ELSE (IF Head(s) \in class THEN repl ELSE << Head(s) >>) \o re_sub(class, repl, Tail(s))

\* Mutant: the pattern written without r'', where \\/ is an escaped slash and
\* the class holds no backslash.
sanitize_filename_NotRaw(filename) == re_sub(InvalidChars \ { "\\" }, << "_" >>, filename)

sanitize_filename(filename) == re_sub(InvalidChars, << "_" >>, filename)

\* ------------------------------------------------------------ the state

VARIABLES
  fs,             \* the file system the program reads
  IGNORE_DIRS,    \* the module-level list
  IGNORE_EXTS,    \* the module-level list
  pc,             \* "idle", or the loop the running function is in
  call,           \* the running (or last) call and its arguments as passed
  caller,         \* the caller's own list objects, as they are now
  repo_path,      \* local of the running function
  ignore_dirs,    \* local: the effective list
  ignore_exts,    \* local: the effective list
  stack,          \* os.walk: the directories still to visit, next first
  files_list,     \* scan_repository's local
  all_files,      \* process_repository's local
  idx,            \* process_repository: the entries of file_list done
  file_count,     \* process_repository's local
  skipped_count,  \* process_repository's local
  out,            \* the output directory
  log,            \* what happened to each path processed, in order
  result,         \* what the last call returned or raised
  san_in,         \* the argument of sanitize_filename
  san_out,        \* its result
  man_in,         \* the all_files argument of create_manifest, called alone
  man_out,        \* the output directory after it and the exception it raised
  prev,           \* the call before this one, what it left and returned, when kept
  menu,           \* interactive_file_selection: its locals and what it returned
  typed,          \* the lines it has read from input()
  cli             \* cli.main: its arguments, where it is, its exit status

vars ==
  << fs, IGNORE_DIRS, IGNORE_EXTS, pc, call, caller, repo_path, ignore_dirs,
     ignore_exts, stack, files_list, all_files, idx, file_count, skipped_count,
     out, log, result, san_in, san_out, man_in, man_out, prev, menu, typed, cli >>

procVars == << all_files, idx, file_count, skipped_count, out, log >>
manVars == << man_in, man_out >>
selVars == << menu, typed >>
sanVars == << san_in, san_out, manVars, prev, selVars, cli >>

NoCall ==
  [fn |-> "", repo_path |-> << >>, output_dir |-> << >>, ignore_dirs |-> NoneV,
   ignore_exts |-> NoneV, file_list |-> NoneV]

NoCaller == [ignore_dirs |-> NoneV, ignore_exts |-> NoneV, file_list |-> NoneV]

NoResult ==
  [fn |-> "", status |-> "none", kind |-> "", msg |-> "", files |-> << >>,
   file_count |-> 0, skipped_count |-> 0, manifest_path |-> << >>]

Raised(fn, err) ==
  [NoResult EXCEPT !.fn = fn, !.status = "raised", !.kind = err.kind, !.msg = err.msg]

NoOut == [exists |-> FALSE, files |-> << >>]

\* Every variable but the file system, before any call.
\* interactive_file_selection is not running.
NoMenu == [pc |-> "idle", files_list |-> << >>, selected |-> << >>, current_page |-> 0,
           returned |-> NoneV]

\* cli.main has not been called.
NoCli == [pc |-> "idle", args |-> << >>, status |-> 0, error |-> [kind |-> "", msg |-> ""]]

Loaded ==
  /\ IGNORE_DIRS = DefaultIgnoreDirs
  /\ IGNORE_EXTS = DefaultIgnoreExts
  /\ pc = "idle"
  /\ call = NoCall
  /\ caller = NoCaller
  /\ repo_path = << >>
  /\ ignore_dirs = << >>
  /\ ignore_exts = << >>
  /\ stack = << >>
  /\ files_list = << >>
  /\ all_files = << >>
  /\ idx = 0
  /\ file_count = 0
  /\ skipped_count = 0
  /\ out = NoOut
  /\ log = << >>
  /\ result = NoResult
  /\ san_in = << >>
  /\ san_out = NoneV
  /\ man_in = << >>
  /\ man_out = NoneV
  /\ prev = NoneV
  /\ menu = NoMenu
  /\ typed = << >>
  /\ cli = NoCli

\* ------------------------------------------------------- the arguments

RootArgs == { << "/", "r" >>, << "/", "n", "x" >>, << "/", "f" >>, << "/", "u" >> }
DirsArgs == { NoneV, Some(<< >>), Some(<< n_a >>) }
ExtsArgs == { NoneV, Some(<< >>), Some(<< n_b >>) }

\* ------------------------------------------------------ shared by both

NoError == [kind |-> "", msg |-> ""]
InvalidRepositoryError(msg) == [kind |-> "InvalidRepositoryError", msg |-> msg]
OutputDirectoryError(msg) == [kind |-> "OutputDirectoryError", msg |-> msg]

\* Mutant: `arg += GLOBAL`, which extends the caller's list in place.
MergeIgnore_Augmented(arg, global) ==
  [effective |-> IF arg.some THEN arg.v \o global ELSE global,
   arg |-> IF arg.some THEN Some(arg.v \o global) ELSE arg,
   global |-> global]

\* `arg + GLOBAL` when arg is not None, else GLOBAL: the effective list, and the
\* two operands as the statement leaves them (list + list builds a new list).
MergeIgnore(arg, global) ==
  [effective |-> IF arg.some THEN arg.v \o global ELSE global,
   arg |-> arg,
   global |-> global]

\* Mutant: `dirs = [...]` rebinds the name and leaves os.walk's list as it was.
PruneDirs_Rebound(dirs, ign) == dirs

\* dirs[:] = [d for d in dirs if d not in ignore_dirs]
PruneDirs(dirs, ign) == SelectSeq(dirs, LAMBDA d : ~InList(d, ign))

\* os.path.splitext(filename)[1]: from the last dot on, leading dots apart
splitext_ext(filename) ==
  LET dots == { i \in 1..Len(filename) : filename[i] = "." /\ \E j \in 1..(i - 1) : filename[j] # "." }
  IN IF dots = { } THEN << >>
     ELSE SubSeq(filename, CHOOSE i \in dots : \A j \in dots : j <= i, Len(filename))

\* Mutant: the extension compared is the last dot-segment.
IgnoredFile_Splitext(filename, exts) == InList(splitext_ext(filename), exts)

\* any(filename.endswith(ext) for ext in ignore_exts)
IgnoredFile(filename, exts) == \E i \in 1..Len(exts) : endswith(filename, exts[i])

\* The files of one os.walk iteration that pass the extension filter, as
\* paths relative to the repository.
AcceptedPaths(top, files, exts, repo) ==
  LET kept == SelectSeq(files, LAMBDA fn : ~IgnoredFile(fn, exts))
  IN [ i \in 1..Len(kept) |-> relpath(os_path_join(top, kept[i]), repo) ]

\* os.walk top-down, followlinks=False: the directories kept are visited next,
\* in their order, those that are symbolic links apart.
PushDirs(f, top, dirs, rest) ==
  LET walked == SelectSeq(dirs, LAMBDA d : ~os_path_islink(f, os_path_join(top, d)))
  IN [ i \in 1..Len(walked) |-> os_path_join(top, walked[i]) ] \o rest

\* --------------------------------------------------------- scan_repository

\* Mutant: the second check raises with the first one's message.
ScanValidate_CopiedMessage(f, path) ==
  IF ~os_path_exists(f, path) THEN InvalidRepositoryError("Repository path does not exist")
  ELSE IF ~os_path_isdir(f, path) THEN InvalidRepositoryError("Repository path does not exist")
  ELSE IF ~os_access_R_OK(f, path) THEN InvalidRepositoryError("Repository path is not readable")
  ELSE NoError

\* The validation of scan_repository: the error it raises, or NoError.
ScanValidate(f, path) ==
  IF ~os_path_exists(f, path) THEN InvalidRepositoryError("Repository path does not exist")
  ELSE IF ~os_path_isdir(f, path) THEN InvalidRepositoryError("Repository path is not a directory")
  ELSE IF ~os_access_R_OK(f, path) THEN InvalidRepositoryError("Repository path is not readable")
  ELSE NoError

ScanReturned_Unsorted(files) ==
  [NoResult EXCEPT !.fn = "scan_repository", !.status = "returned", !.files = files]

\* return sorted(files_list)
ScanReturned(files) ==
  [NoResult EXCEPT !.fn = "scan_repository", !.status = "returned", !.files = sorted(files)]

\* The call, up to the os.walk loop.
scan_repository(p, d, e) ==
  /\ pc = "idle"
  /\ call' = [fn |-> "scan_repository", repo_path |-> p, output_dir |-> << >>,
              ignore_dirs |-> d, ignore_exts |-> e, file_list |-> NoneV]
  /\ LET err == ScanValidate(fs, p)
         md == MergeIgnore(d, IGNORE_DIRS)
         me == MergeIgnore(e, IGNORE_EXTS)
     IN IF err.kind # ""
        THEN /\ result' = Raised("scan_repository", err)
             /\ caller' = [ignore_dirs |-> d, ignore_exts |-> e, file_list |-> NoneV]
             /\ pc' = "idle"
             /\ repo_path' = << >>
             /\ ignore_dirs' = << >>
             /\ ignore_exts' = << >>
             /\ stack' = << >>
             /\ UNCHANGED << IGNORE_DIRS, IGNORE_EXTS >>
        ELSE /\ result' = NoResult
             /\ caller' = [ignore_dirs |-> md.arg, ignore_exts |-> me.arg, file_list |-> NoneV]
             /\ IGNORE_DIRS' = md.global
             /\ IGNORE_EXTS' = me.global
             /\ pc' = "scan_walk"
             /\ repo_path' = abspath(p)
             /\ ignore_dirs' = md.effective
             /\ ignore_exts' = me.effective
             /\ stack' = << abspath(p) >>
  /\ files_list' = << >>
  /\ all_files' = << >>
  /\ idx' = 0
  /\ file_count' = 0
  /\ skipped_count' = 0
  /\ out' = NoOut
  /\ log' = << >>
  /\ UNCHANGED << fs, sanVars >>

\* One iteration of `for root, dirs, files in os.walk(repo_path)`; the last
\* one returns sorted(files_list).
scan_walk ==
  /\ pc = "scan_walk"
  /\ LET top == Head(stack)
         ents == scandir(fs, top)
     IN \E dirs0 \in Perms(ents.dirs), files \in Perms(ents.nondirs) :
          LET dirs == PruneDirs(dirs0, ignore_dirs)
              fl == files_list \o AcceptedPaths(top, files, ignore_exts, repo_path)
              st == PushDirs(fs, top, dirs, Tail(stack))
          IN IF st = << >>
             THEN /\ result' = ScanReturned(fl)
                  /\ pc' = "idle"
                  /\ files_list' = << >>
                  /\ stack' = << >>
                  /\ repo_path' = << >>
                  /\ ignore_dirs' = << >>
                  /\ ignore_exts' = << >>
             ELSE /\ files_list' = fl
                  /\ stack' = st
                  /\ UNCHANGED << pc, result, repo_path, ignore_dirs, ignore_exts >>
  /\ UNCHANGED << fs, IGNORE_DIRS, IGNORE_EXTS, call, caller, procVars, sanVars >>

InitScan == fs \in FileSystems(ScanPool, MaxScanFiles) /\ Loaded

NextScan ==
  \/ \E p \in RootArgs, d \in DirsArgs, e \in ExtsArgs : scan_repository(p, d, e)
  \/ scan_walk

\* scan_repository alone, called again and again on one file system
SpecScan == InitScan /\ [][NextScan]_vars

\* --------------------------------------------------------- create_manifest

\* The sentinel key of the per-level file list
FILES == << "_", "_", "f", "i", "l", "e", "s", "_", "_" >>

\* 'Repository structure:' and the empty line after it
ManifestHeader ==
  << << "R", "e", "p", "o", "s", "i", "t", "o", "r", "y", " ",
        "s", "t", "r", "u", "c", "t", "u", "r", "e", ":" >>,
     << >> >>

\* Python values of the tree: a dict (a function from keys), a list, or the
\* exception raised while building.
Dict(d) == [t |-> "dict", d |-> d, l |-> << >>, err |-> ""]
List(l) == [t |-> "list", d |-> << >>, l |-> l, err |-> ""]
TreeError(k) == [t |-> "error", d |-> << >>, l |-> << >>, err |-> k]

\* d[k] = v
Put(d, k, v) == [ y \in (DOMAIN d) \cup { k } |-> IF y = k THEN v ELSE d[y] ]

\* The inner loop `for i, part in enumerate(parts)` from `current` on.  A str
\* subscript on a list raises TypeError; .append on a dict raises
\* AttributeError.
RECURSIVE InsertParts(_, _)
InsertParts(current, parts) ==
  LET part == Head(parts) IN
    IF current.t = "list" THEN TreeError("TypeError")
    ELSE IF Len(parts) = 1
    THEN IF FILES \notin DOMAIN current.d
         THEN Dict(Put(current.d, FILES, List(<< part >>)))
         ELSE IF current.d[FILES].t = "list"
         THEN Dict(Put(current.d, FILES, List(Append(current.d[FILES].l, part))))
         ELSE TreeError("AttributeError")
    ELSE LET d1 == IF part \in DOMAIN current.d THEN current.d
                   ELSE Put(current.d, part, Dict(<< >>))
             child == InsertParts(d1[part], Tail(parts))
         IN IF child.t = "error" THEN child ELSE Dict(Put(d1, part, child))

\* The loop `for file_path in all_files`
RECURSIVE BuildTree(_, _)
BuildTree(file_tree, files) ==
  IF files = << >> THEN file_tree
  ELSE LET t == InsertParts(file_tree, split(Head(files), "/"))
       IN IF t.t = "error" THEN t ELSE BuildTree(t, Tail(files))

\* sorted(S) for a set of str (the keys of a dict)
RECURSIVE SortSet(_)
SortSet(S) ==
  IF S = { } THEN << >>
  ELSE LET m == CHOOSE y \in S : \A z \in S \ { y } : StrLt(y, z)
       IN << m >> \o SortSet(S \ { m })

Indent(level) == [ i \in 1..(4 * level) |-> " " ]

\* write_tree(tree, level): the lines written
RECURSIVE write_tree(_, _)
RECURSIVE WriteDirs(_, _, _)
\* Mutant: the file names are written as they were appended.
write_tree_Unsorted(tree, level) ==
  LET files == IF FILES \notin DOMAIN tree.d THEN << >>
               ELSE IF tree.d[FILES].t = "list" THEN tree.d[FILES].l
               ELSE SortSet(DOMAIN tree.d[FILES].d)
      dirs == SortSet((DOMAIN tree.d) \ { FILES })
  IN [ i \in 1..Len(files) |-> Indent(level) \o files[i] ] \o WriteDirs(tree, dirs, level)

write_tree(tree, level) ==
  LET files == IF FILES \notin DOMAIN tree.d THEN << >>
               ELSE IF tree.d[FILES].t = "list" THEN sorted(tree.d[FILES].l)
               ELSE SortSet(DOMAIN tree.d[FILES].d)
      dirs == SortSet((DOMAIN tree.d) \ { FILES })
  IN [ i \in 1..Len(files) |-> Indent(level) \o files[i] ] \o WriteDirs(tree, dirs, level)

\* The loop over the sorted directories of one level
WriteDirs(tree, dirs, level) ==
  IF dirs = << >> THEN << >>
  ELSE << Indent(level) \o Head(dirs) >>
         \o write_tree(tree.d[Head(dirs)], level + 1)
         \o WriteDirs(tree, Tail(dirs), level)

\* A file of the output directory: a flattened copy (the header's path, the
\* file whose content was read, whether all of it was written) or the manifest
\* (its lines).
Flat(path, src, complete) ==
  [kind |-> "flat", header |-> path, src |-> src, complete |-> complete, lines |-> << >>]
Manifest(lines) ==
  [kind |-> "manifest", header |-> << >>, src |-> << >>, complete |-> TRUE, lines |-> lines]

\* What the operating system may answer to a write of a file: all written, the
\* open refused, or the file created and the write cut short.
WriteOutcomes == { "ok", "open_fails", "write_fails" }
\* ... to the write of the manifest; to os.makedirs
ManifestOutcomes == { "ok", "open_fails" }
MakedirsOutcomes == { "ok", "oserror" }

\* create_manifest(output_dir, all_files): the files of the output directory
\* after it, and the exception that left it (NoError: it returned).
create_manifest(files, all_files_, mw) ==
  IF mw = "open_fails" THEN [files |-> files, err |-> [kind |-> "OSError", msg |-> ""]]
  ELSE LET file_tree == BuildTree(Dict(<< >>), all_files_) IN
    IF file_tree.t = "error"
    THEN [files |-> Put(files, n_manifest, Manifest(ManifestHeader)),
          err |-> [kind |-> file_tree.err, msg |-> ""]]
    ELSE [files |-> Put(files, n_manifest, Manifest(ManifestHeader \o write_tree(file_tree, 0))),
          err |-> NoError]

\* ------------------------------------------------------ process_repository

OutDir == << "/", "o" >>
OutSegs == << << "o" >> >>

\* The validation of process_repository: the error it raises, or NoError.
ProcessValidate(f, path) ==
  IF ~os_path_exists(f, path) THEN InvalidRepositoryError("Repository path does not exist")
  ELSE IF ~os_path_isdir(f, path) THEN InvalidRepositoryError("Repository path is not a directory")
  ELSE NoError

\* Mutant: the output file is named after the last segment alone.
OutputFilename_Basename(relative_path) ==
  LET segs == split(relative_path, "/") IN sanitize_filename(segs[Len(segs)])

\* relative_path.replace('/', '_'), sanitized
OutputFilename(relative_path) == sanitize_filename(replace(relative_path, "/", "_"))

\* open(output_filepath, 'w') creates a file in a directory that exists: the
\* output directory holds no other.
Creatable(output_filename) ==
  /\ output_filename \notin { << >>, Dot, DotDot }
  /\ \A i \in 1..Len(output_filename) : output_filename[i] # "/"

\* What the run finds on the disk: the file system, and the output directory
\* with the files written into it so far.
Disk(f, files) ==
  [ q \in { OutSegs \o << name >> : name \in DOMAIN files } |-> Node("file", TRUE) ]
    @@ ( OutSegs :> Node("dir", TRUE) )
    @@ f

\* The body of the loop for one relative_path: st holds the files of the output
\* directory, the two counters and the log; w is the answer to the write.
ProcessOne(f, repo, st, relative_path, w) ==
  LET file_path == os_path_join(repo, relative_path)
      output_filename == OutputFilename(relative_path)
      rd == open_read(Disk(f, st.files), file_path)
      wr == IF Creatable(output_filename) THEN w ELSE "open_fails"
      entry(o) == [path |-> relative_path, outcome |-> o, src |-> rd.p, name |-> output_filename]
  IN IF ~rd.ok
     THEN [st EXCEPT !.skipped_count = @ + 1, !.log = Append(@, entry("read_failed"))]
     ELSE IF wr = "ok"
     THEN [st EXCEPT !.files = Put(@, output_filename, Flat(relative_path, rd.p, TRUE)),
                     !.file_count = @ + 1,
                     !.log = Append(@, entry("ok"))]
     ELSE IF wr = "write_fails"
     THEN [st EXCEPT !.files = Put(@, output_filename, Flat(relative_path, rd.p, FALSE)),
                     !.skipped_count = @ + 1,
                     !.log = Append(@, entry("write_failed"))]
     ELSE [st EXCEPT !.skipped_count = @ + 1, !.log = Append(@, entry("open_failed"))]

\* The inner loop `for filename in files` of the walk, after the filter
RECURSIVE ProcessAll(_, _, _, _, _)
ProcessAll(f, repo, st, paths, ws) ==
  IF paths = << >> THEN st
  ELSE ProcessAll(f, repo, ProcessOne(f, repo, st, Head(paths), Head(ws)), Tail(paths), Tail(ws))

ProcReturned(fc, sc) ==
  [NoResult EXCEPT !.fn = "process_repository", !.status = "returned",
                   !.file_count = fc, !.skipped_count = sc,
                   !.manifest_path = os_path_join(OutDir, n_manifest)]

Locals == [files |-> out.files, file_count |-> file_count,
           skipped_count |-> skipped_count, log |-> log]

\* The list handed to create_manifest: all_files
ManifestInput(af, lg) == af

\* After the loop: create_manifest, then the return (or its exception).
Finish(st, af, mw) ==
  LET m == create_manifest(st.files, ManifestInput(af, st.log), mw) IN
    /\ out' = [exists |-> TRUE, files |-> m.files]
    /\ result' = IF m.err.kind # "" THEN Raised("process_repository", m.err)
                 ELSE ProcReturned(st.file_count, st.skipped_count)
    /\ all_files' = af
    /\ file_count' = st.file_count
    /\ skipped_count' = st.skipped_count
    /\ log' = st.log
    /\ pc' = "idle"
    /\ idx' = 0
    /\ stack' = << >>
    /\ repo_path' = << >>
    /\ ignore_dirs' = << >>
    /\ ignore_exts' = << >>

\* The loop goes on.
Continue(st, af, next_pc, next_idx, next_stack) ==
  /\ out' = [exists |-> TRUE, files |-> st.files]
  /\ all_files' = af
  /\ file_count' = st.file_count
  /\ skipped_count' = st.skipped_count
  /\ log' = st.log
  /\ pc' = next_pc
  /\ idx' = next_idx
  /\ stack' = next_stack
  /\ UNCHANGED << result, repo_path, ignore_dirs, ignore_exts >>

\* The call, up to its loop; mk is the answer to os.makedirs and mw the one to
\* the manifest's write (used when file_list is empty).
process_repository(p, d, e, fl, mk, mw) ==
  /\ pc = "idle"
  /\ call' = [fn |-> "process_repository", repo_path |-> p, output_dir |-> OutDir,
              ignore_dirs |-> d, ignore_exts |-> e, file_list |-> fl]
  /\ files_list' = << >>
  /\ UNCHANGED << fs, sanVars >>
  /\ LET err == ProcessValidate(fs, p)
         md == MergeIgnore(d, IGNORE_DIRS)
         me == MergeIgnore(e, IGNORE_EXTS)
         st0 == [files |-> << >>, file_count |-> 0, skipped_count |-> 0, log |-> << >>]
         quit(ex) ==
           /\ result' = Raised("process_repository", ex)
           /\ out' = NoOut
           /\ pc' = "idle"
           /\ repo_path' = << >>
           /\ ignore_dirs' = << >>
           /\ ignore_exts' = << >>
           /\ stack' = << >>
           /\ all_files' = << >>
           /\ idx' = 0
           /\ file_count' = 0
           /\ skipped_count' = 0
           /\ log' = << >>
     IN IF err.kind # ""
        THEN /\ quit(err)
             /\ caller' = [ignore_dirs |-> d, ignore_exts |-> e, file_list |-> fl]
             /\ UNCHANGED << IGNORE_DIRS, IGNORE_EXTS >>
        ELSE /\ caller' = [ignore_dirs |-> md.arg, ignore_exts |-> me.arg, file_list |-> fl]
             /\ IGNORE_DIRS' = md.global
             /\ IGNORE_EXTS' = me.global
             /\ IF mk = "oserror"
                THEN quit(OutputDirectoryError("Cannot create output directory"))
                ELSE IF fl.some /\ fl.v = << >>
                THEN Finish(st0, fl.v, mw)
                ELSE /\ out' = [exists |-> TRUE, files |-> << >>]
                     /\ result' = NoResult
                     /\ repo_path' = abspath(p)
                     /\ ignore_dirs' = md.effective
                     /\ ignore_exts' = me.effective
                     /\ all_files' = IF fl.some THEN fl.v ELSE << >>
                     /\ idx' = 0
                     /\ file_count' = 0
                     /\ skipped_count' = 0
                     /\ log' = << >>
                     /\ pc' = IF fl.some THEN "proc_list" ELSE "proc_walk"
                     /\ stack' = IF fl.some THEN << >> ELSE << abspath(p) >>

\* One iteration of `for relative_path in file_list`; the last one goes on to
\* create_manifest and the return.
process_list ==
  /\ pc = "proc_list"
  /\ \E w \in WriteOutcomes :
       LET st == ProcessOne(fs, repo_path, Locals, all_files[idx + 1], w)
       IN IF idx + 1 = Len(all_files)
          THEN \E mw \in ManifestOutcomes : Finish(st, all_files, mw)
          ELSE Continue(st, all_files, "proc_list", idx + 1, << >>)
  /\ UNCHANGED << fs, IGNORE_DIRS, IGNORE_EXTS, call, caller, files_list, sanVars >>

\* One iteration of `for root, dirs, files in os.walk(repo_path)`; the last one
\* goes on to create_manifest and the return.
process_walk ==
  /\ pc = "proc_walk"
  /\ LET top == Head(stack)
         disk == Disk(fs, out.files)
         ents == scandir(disk, top)
     IN \E dirs0 \in Perms(ents.dirs), files \in Perms(ents.nondirs) :
          LET dirs == PruneDirs(dirs0, ignore_dirs)
              paths == AcceptedPaths(top, files, ignore_exts, repo_path)
              sk == PushDirs(disk, top, dirs, Tail(stack))
          IN \E ws \in [1..Len(paths) -> WriteOutcomes] :
               LET st == ProcessAll(fs, repo_path, Locals, paths, ws)
               IN IF sk = << >>
                  THEN \E mw \in ManifestOutcomes : Finish(st, all_files \o paths, mw)
                  ELSE Continue(st, all_files \o paths, "proc_walk", 0, sk)
  /\ UNCHANGED << fs, IGNORE_DIRS, IGNORE_EXTS, call, caller, files_list, sanVars >>

\* The caller drops the result of the call that ended.
Reset ==
  /\ pc = "idle"
  /\ result.status # "none"
  /\ call' = NoCall
  /\ caller' = NoCaller
  /\ result' = NoResult
  /\ out' = NoOut
  /\ log' = << >>
  /\ all_files' = << >>
  /\ file_count' = 0
  /\ skipped_count' = 0
  /\ UNCHANGED << fs, IGNORE_DIRS, IGNORE_EXTS, pc, repo_path, ignore_dirs, ignore_exts,
                  stack, files_list, idx, sanVars >>

\* The paths a caller lists: files of the repository or not,
\* an absolute one outside the root, one below a directory named as the
\* manifest's sentinel key.
ListPool ==
  { << "a", "/", "b" >>, << "a", "_", "b" >>, << "/", "f" >>, FILES \o << "/", "x" >> }

FileLists == { Some(l) : l \in UNION { [1..k -> ListPool] : k \in 0..MaxList } }

ProcIgnoreArgs == { << NoneV, NoneV >>, << Some(<< n_a >>), Some(<< n_b >>) >> }

\* The calls made: repo_path, the two ignore lists, file_list.  A call walks
\* with either pair of ignore lists, or is given a list, the caller's own
\* ignore lists and a root that is a directory.
ProcArgs ==
  { << p, ig, NoneV >> : p \in RootArgs, ig \in ProcIgnoreArgs }
    \cup { << p, << Some(<< n_a >>), Some(<< n_b >>) >>, fl >> :
             p \in { << "/", "r" >>, << "/", "u" >> }, fl \in FileLists }

Init == fs \in FileSystems(ProcPool, MaxFiles) /\ Loaded

Next ==
  \/ Reset
  \/ /\ result.status = "none"
     /\ \E p \in RootArgs, d \in DirsArgs, e \in ExtsArgs : scan_repository(p, d, e)
  \/ scan_walk
  \/ /\ result.status = "none"
     /\ \E a \in ProcArgs, mk \in MakedirsOutcomes :
          \E mw \in IF a[3] = Some(<< >>) THEN ManifestOutcomes ELSE { "ok" } :
            process_repository(a[1], a[2][1], a[2][2], a[3], mk, mw)
  \/ process_list
  \/ process_walk

\* The program: calls of scan_repository and process_repository, one after
\* the other, on one file system
Spec == Init /\ [][Next]_vars

\* process_repository on repositories that hold a directory named as the
\* manifest's sentinel key and files whose output names are the same.
SentinelPool ==
  { Cand(<< FILES, n_x >>, TRUE), Cand(<< FILES \o << "_", "x" >> >>, TRUE),
    Cand(<< n_a, n_b >>, TRUE), Cand(<< n_a_b >>, TRUE) }

SentinelListPool ==
  { FILES \o << "/", "x" >>, FILES \o << "_", "x" >>, << "a", "/", "b" >>, << "a", "_", "b" >>,
    << ".", ".", "/", "f" >> }

SentinelArgs ==
  { NoneV } \cup { Some(l) : l \in UNION { [1..k -> SentinelListPool] : k \in 0..MaxList } }

InitSentinel == fs \in FileSystems(SentinelPool, MaxFiles) /\ Loaded

NextSentinel ==
  \/ Reset
  \/ /\ result.status = "none"
     /\ \E fl \in SentinelArgs, mk \in MakedirsOutcomes :
          \E mw \in IF fl = Some(<< >>) THEN ManifestOutcomes ELSE { "ok" } :
            process_repository(<< "/", "r" >>, NoneV, NoneV, fl, mk, mw)
  \/ process_list
  \/ process_walk

SpecSentinel == InitSentinel /\ [][NextSentinel]_vars

\* process_repository run twice with the same arguments on one repository,
\* each time on an empty output directory.
TwicePool ==
  { Cand(<< n_a, n_b >>, TRUE), Cand(<< n_a_b >>, TRUE), Cand(<< n_k >>, FALSE),
    LinkCand(<< n_l >>, << ".", ".", "/", "f" >>) }

TwiceArgs ==
  { << p, ig, NoneV >> : p \in { << "/", "r" >>, << "/", "n", "x" >> }, ig \in ProcIgnoreArgs }
    \cup { << << "/", "r" >>, << NoneV, NoneV >>, Some(l) >> :
             l \in UNION { [1..k -> { << "a", "/", "b" >>, << "a", "_", "b" >> }] : k \in 0..MaxList } }

\* The caller keeps what the first run returned and wrote, and empties the
\* output directory.
Keep ==
  /\ pc = "idle"
  /\ call.fn = "process_repository"
  /\ result.status # "none"
  /\ ~prev.some
  /\ prev' = Some([call |-> call, out |-> out, result |-> result, log |-> log])
  /\ result' = NoResult
  /\ out' = NoOut
  /\ log' = << >>
  /\ all_files' = << >>
  /\ file_count' = 0
  /\ skipped_count' = 0
  /\ UNCHANGED << fs, IGNORE_DIRS, IGNORE_EXTS, pc, call, caller, repo_path, ignore_dirs,
                  ignore_exts, stack, files_list, idx, san_in, san_out, manVars, selVars, cli >>

InitTwice == fs \in FileSystems(TwicePool, MaxFiles) /\ Loaded

NextTwice ==
  \/ /\ result.status = "none"
     /\ ~prev.some
     /\ \E a \in TwiceArgs, mk \in MakedirsOutcomes :
          \E mw \in IF a[3] = Some(<< >>) THEN ManifestOutcomes ELSE { "ok" } :
            process_repository(a[1], a[2][1], a[2][2], a[3], mk, mw)
  \/ process_list
  \/ process_walk
  \/ Keep
  \/ /\ result.status = "none"
     /\ prev.some
     /\ \E mk \in MakedirsOutcomes :
          \E mw \in IF prev.v.call.file_list = Some(<< >>) THEN ManifestOutcomes ELSE { "ok" } :
            process_repository(prev.v.call.repo_path, prev.v.call.ignore_dirs,
                               prev.v.call.ignore_exts, prev.v.call.file_list, mk, mw)

SpecTwice == InitTwice /\ [][NextTwice]_vars

\* scan_repository, then process_repository given the list it returned, then
\* process_repository walking by itself with the same root and ignore lists,
\* each on an empty output directory.  The root '/' holds the output
\* directory; it is walked with its directory r ignored.
EquivArgs ==
  { << p, ig >> : p \in RootArgs, ig \in ProcIgnoreArgs }
    \cup { << Slash, << Some(<< n_r >>), NoneV >> >> }

InitEquiv == fs \in FileSystems(TwicePool, MaxFiles) /\ Loaded

NextEquiv ==
  \/ /\ result.status = "none"
     /\ ~prev.some
     /\ \E a \in EquivArgs : scan_repository(a[1], a[2][1], a[2][2])
  \/ scan_walk
  \/ /\ call.fn = "scan_repository"
     /\ result.status = "returned"
     /\ \E mk \in MakedirsOutcomes :
          \E mw \in IF result.files = << >> THEN ManifestOutcomes ELSE { "ok" } :
            process_repository(call.repo_path, call.ignore_dirs, call.ignore_exts,
                               Some(result.files), mk, mw)
  \/ process_list
  \/ Keep
  \/ /\ result.status = "none"
     /\ prev.some
     /\ \E mk \in MakedirsOutcomes :
          process_repository(prev.v.call.repo_path, prev.v.call.ignore_dirs,
                             prev.v.call.ignore_exts, NoneV, mk, "ok")
  \/ process_walk

SpecEquiv == InitEquiv /\ [][NextEquiv]_vars

\* ------------------------------------------------------------- cli.main

\* The parameters of the two core functions main calls, in order, and how many
\* of them have no default.
Signature ==
  [ scan_repository |->
      [params |-> << "repo_path", "ignore_dirs", "ignore_exts" >>, required |-> 1],
    process_repository |->
      [params |-> << "repo_path", "output_dir", "ignore_dirs", "ignore_exts", "file_list" >>,
       required |-> 2] ]

\* The calls main makes: the number of positional arguments and the keywords.
CallSite ==
  [ scan_repository |-> [fn |-> "scan_repository", npos |-> 4, keywords |-> { }],
    process_selected |->
      [fn |-> "process_repository", npos |-> 4,
       keywords |-> { "file_list", "show_progress", "max_workers", "max_file_size",
                      "use_cache", "cache_dir", "follow_symlinks", "max_files" }],
    process_all |->
      [fn |-> "process_repository", npos |-> 4,
       keywords |-> { "show_progress", "max_workers", "max_file_size",
                      "use_cache", "cache_dir", "follow_symlinks", "max_files" }] ]

\* Python binds the arguments of a call to the parameters of the function: the
\* TypeError it raises, or NoError.
Bind(c) ==
  LET sig == Signature[c.fn]
      bound == { sig.params[i] : i \in 1..c.npos } \cup c.keywords
  IN IF c.npos > Len(sig.params)
     THEN [kind |-> "TypeError", msg |-> "takes more positional arguments than given"]
     ELSE IF \E k \in c.keywords : ~InList(k, sig.params)
     THEN [kind |-> "TypeError", msg |-> "got an unexpected keyword argument"]
     ELSE IF \E i \in 1..c.npos : sig.params[i] \in c.keywords
     THEN [kind |-> "TypeError", msg |-> "got multiple values for argument"]
     ELSE IF \E i \in 1..sig.required : sig.params[i] \notin bound
     THEN [kind |-> "TypeError", msg |-> "missing required positional argument"]
     ELSE NoError

\* The command lines: the repository, --dry-run, --interactive, --quiet
CliArgs ==
  [repo_path : RootArgs, dry_run : BOOLEAN, interactive : BOOLEAN, quiet : BOOLEAN]

\* main(), from parse_args to its first call of the core and what the call's
\* exception leads to; interrupted says that Ctrl-C came first.  A call that
\* binds hands over to the core function (pc "core").
main(args, interrupted) ==
  /\ cli.pc = "idle"
  /\ LET first == IF args.dry_run \/ args.interactive THEN CallSite.scan_repository
                  ELSE CallSite.process_all
         err == Bind(first)
     IN cli' = IF interrupted
               THEN [pc |-> "exited", args |-> args, status |-> 130, error |-> NoError]
               ELSE IF err.kind # ""
               THEN [pc |-> "exited", args |-> args, status |-> 1, error |-> err]
               ELSE [pc |-> "core", args |-> args, status |-> 0, error |-> NoError]
  /\ UNCHANGED << fs, IGNORE_DIRS, IGNORE_EXTS, pc, call, caller, repo_path, ignore_dirs,
                  ignore_exts, stack, files_list, procVars, result, san_in, san_out, manVars,
                  prev, selVars >>

InitCli == fs \in FileSystems(TwicePool, MaxFiles) /\ Loaded

NextCli == \E args \in CliArgs, interrupted \in BOOLEAN : main(args, interrupted)

SpecCli == InitCli /\ [][NextCli]_vars

\* ------------------------------------------------ interactive_file_selection

Whitespace == { " ", "\t", "\n" }

\* s.strip()
RECURSIVE strip(_)
strip(s) ==
  IF s = << >> THEN s
  ELSE IF Head(s) \in Whitespace THEN strip(Tail(s))
  ELSE IF s[Len(s)] \in Whitespace THEN strip(SubSeq(s, 1, Len(s) - 1))
  ELSE s

UpperCase == << "A", "D", "E", "N", "O", "T" >>
LowerCase == << "a", "d", "e", "n", "o", "t" >>

\* s.lower(), on the letters of the model
lower(s) ==
  [ i \in 1..Len(s) |->
      IF InList(s[i], UpperCase)
      THEN LowerCase[CHOOSE k \in 1..Len(UpperCase) : UpperCase[k] = s[i]]
      ELSE s[i] ]

\* s.split(): the runs of characters that are no whitespace
RECURSIVE split_ws(_)
split_ws(s) ==
  LET t == strip(s) IN
    IF t = << >> THEN << >>
    ELSE IF \A i \in 1..Len(t) : t[i] \notin Whitespace THEN << t >>
    ELSE LET i == CHOOSE k \in 1..Len(t) :
                    t[k] \in Whitespace /\ \A j \in 1..(k - 1) : t[j] \notin Whitespace
         IN << SubSeq(t, 1, i - 1) >> \o split_ws(SubSeq(t, i + 1, Len(t)))

DigitChars == << "0", "1", "2", "3", "4", "5", "6", "7", "8", "9" >>

RECURSIVE DigitsValue(_, _)
DigitsValue(ds, acc) ==
  IF ds = << >> THEN acc
  ELSE DigitsValue(Tail(ds),
                   10 * acc + (CHOOSE d \in 0..9 : DigitChars[d + 1] = Head(ds)))

\* int(s) of a str of ASCII digits with an optional sign: ok is FALSE where
\* int raises ValueError.
int(s) ==
  LET t == strip(s)
      signed == t # << >> /\ Head(t) \in { "+", "-" }
      ds == IF signed THEN Tail(t) ELSE t
  IN IF ds = << >> \/ \E i \in 1..Len(ds) : ~InList(ds[i], DigitChars)
     THEN [ok |-> FALSE, v |-> 0]
     ELSE [ok |-> TRUE,
           v |-> IF signed /\ Head(t) = "-" THEN 0 - DigitsValue(ds, 0) ELSE DigitsValue(ds, 0)]

\* selected = {i: True for i in range(len(files_list))}
AllSelected(n, b) == [ i \in 0..(n - 1) |-> b ]

\* [files_list[i] for i in range(len(files_list)) if selected[i]]
RECURSIVE SelectedFrom(_, _, _)
SelectedFrom(files, selected, i) ==
  IF i >= Len(files) THEN << >>
  ELSE (IF selected[i] THEN << files[i + 1] >> ELSE << >>) \o SelectedFrom(files, selected, i + 1)

\* Mutant: the number typed is taken as the index.
IndexOf_OneBased(number) == number

\* index = int(parts[1]) - 1
IndexOf(number) == number - 1

\* for i in range(start_idx, end_idx + 1): selected[i] = not selected[i]
Toggle(selected, start_idx, end_idx) ==
  [ i \in DOMAIN selected |-> IF start_idx <= i /\ i <= end_idx THEN ~selected[i] ELSE selected[i] ]

\* The words of the menu, and the prefixes of its commands that take a number
Word ==
  [ d |-> << "d" >>,
    done |-> << "d", "o", "n", "e" >>,
    q |-> << "q" >>,
    quit |-> << "q", "u", "i", "t" >>,
    a |-> << "a" >>,
    all |-> << "a", "l", "l" >>,
    n |-> << "n" >>,
    none |-> << "n", "o", "n", "e" >>,
    s |-> << "s" >>,
    show |-> << "s", "h", "o", "w" >>,
    t_ |-> << "t", " " >>,
    toggle_ |-> << "t", "o", "g", "g", "l", "e", " " >>,
    r_ |-> << "r", " " >>,
    range_ |-> << "r", "a", "n", "g", "e", " " >>,
    p_ |-> << "p", " " >>,
    page_ |-> << "p", "a", "g", "e", " " >> ]

\* One pass of `while True` for a line read by input(): the locals after it.
\* pc is "returned" after the return and "exited" after sys.exit(0).
Command(m, line) ==
  LET command == lower(strip(line))
      n == Len(m.files_list)
      parts == split_ws(command)
  IN
    IF command = << >> THEN m
    ELSE IF command \in { Word.d, Word.done }
    THEN LET selected_files == SelectedFrom(m.files_list, m.selected, 0) IN
           IF selected_files = << >> THEN m
           ELSE [m EXCEPT !.pc = "returned", !.returned = Some(selected_files)]
    ELSE IF command \in { Word.q, Word.quit } THEN [m EXCEPT !.pc = "exited"]
    ELSE IF command \in { Word.a, Word.all } THEN [m EXCEPT !.selected = AllSelected(n, TRUE)]
    ELSE IF command \in { Word.n, Word.none } THEN [m EXCEPT !.selected = AllSelected(n, FALSE)]
    ELSE IF command \in { Word.s, Word.show } THEN m
    ELSE IF startswith(command, Word.t_) \/ startswith(command, Word.toggle_)
    THEN IF Len(parts) # 2 THEN m
         ELSE LET number == int(parts[2])
                  index == IndexOf(number.v)
              IN IF ~number.ok THEN m
                 ELSE IF 0 <= index /\ index < n
                 THEN [m EXCEPT !.selected = Toggle(m.selected, index, index)]
                 ELSE m
    ELSE IF startswith(command, Word.r_) \/ startswith(command, Word.range_)
    THEN IF ~(Len(parts) = 2 /\ InList("-", parts[2])) THEN m
         ELSE LET ends == split(parts[2], "-") IN
                IF Len(ends) # 2 THEN m
                ELSE LET start == int(ends[1])
                         end == int(ends[2])
                         start_idx == IndexOf(start.v)
                         end_idx == IndexOf(end.v)
                     IN IF ~start.ok \/ ~end.ok THEN m
                        ELSE IF 0 <= start_idx /\ start_idx <= end_idx /\ end_idx < n
                        THEN [m EXCEPT !.selected = Toggle(m.selected, start_idx, end_idx)]
                        ELSE m
    ELSE IF startswith(command, Word.p_) \/ startswith(command, Word.page_)
    THEN IF Len(parts) # 2 THEN m
         ELSE LET page == int(parts[2]) IN
                IF ~page.ok THEN m
                ELSE IF 0 <= (page.v - 1) * 20 /\ (page.v - 1) * 20 < n
                THEN [m EXCEPT !.current_page = (page.v - 1) * 20]
                ELSE m
    ELSE m

\* The lines of the model, as typed
Line ==
  [ d |-> << "d" >>,
    DONE |-> << " ", "D", "O", "N", "E" >>,
    a |-> << "a" >>,
    none |-> << "n", "o", "n", "e" >>,
    s |-> << "s" >>,
    q |-> << "q" >>,
    t1 |-> << "t", " ", "1" >>,
    toggle2 |-> << "t", "o", "g", "g", "l", "e", " ", "2" >>,
    t0 |-> << "t", " ", "0" >>,
    tx |-> << "t", " ", "x" >>,
    t12 |-> << "t", " ", "1", " ", "2" >>,
    r12 |-> << "r", " ", "1", "-", "2" >>,
    range23 |-> << "r", "a", "n", "g", "e", " ", "2", "-", "3" >>,
    r21 |-> << "r", " ", "2", "-", "1" >>,
    r123 |-> << "r", " ", "1", "-", "2", "-", "3" >>,
    p1 |-> << "p", " ", "1" >>,
    zz |-> << "z", "z" >>,
    empty |-> << >> ]

\* The lists it is called with
SelectLists ==
  { << >>, << n_a >>, << n_b, n_a >>, << n_a, n_b, n_a >> }

\* The lines typed
Lines == { Line[k] : k \in DOMAIN Line }

\* The call, up to the first input()
interactive_file_selection(fl) ==
  /\ menu.pc = "idle"
  /\ menu.returned = NoneV
  /\ menu' = IF fl = << >> THEN [NoMenu EXCEPT !.returned = Some(<< >>)]
             ELSE [pc |-> "input", files_list |-> fl, selected |-> AllSelected(Len(fl), TRUE),
                   current_page |-> 0, returned |-> NoneV]
  /\ typed' = << >>
  /\ UNCHANGED << fs, IGNORE_DIRS, IGNORE_EXTS, pc, call, caller, repo_path, ignore_dirs,
                  ignore_exts, stack, files_list, procVars, result, san_in, san_out, manVars,
                  prev, cli >>

\* input() returns a line
menu_input ==
  /\ menu.pc = "input"
  /\ Len(typed) < MaxCmds
  /\ \E line \in Lines :
       /\ menu' = Command(menu, line)
       /\ typed' = Append(typed, line)
  /\ UNCHANGED << fs, IGNORE_DIRS, IGNORE_EXTS, pc, call, caller, repo_path, ignore_dirs,
                  ignore_exts, stack, files_list, procVars, result, san_in, san_out, manVars,
                  prev, cli >>

\* input() raises EOFError or KeyboardInterrupt
menu_interrupt ==
  /\ menu.pc = "input"
  /\ menu' = [menu EXCEPT !.pc = "exited"]
  /\ UNCHANGED << fs, IGNORE_DIRS, IGNORE_EXTS, pc, call, caller, repo_path, ignore_dirs,
                  ignore_exts, stack, files_list, procVars, result, san_in, san_out, manVars,
                  prev, typed, cli >>

InitSelect == fs = BaseNodes /\ Loaded

NextSelect ==
  \/ \E fl \in SelectLists : interactive_file_selection(fl)
  \/ menu_input
  \/ menu_interrupt

SpecSelect == InitSelect /\ [][NextSelect]_vars

\* --------------------------------------------- sanitize_filename, applied

SanChars == InvalidChars \cup { "_", "a", "." }

Strs(n) == UNION { [1..k -> SanChars] : k \in 0..n }

Sanitize ==
  /\ ~san_out.some
  /\ san_out' = Some(sanitize_filename(san_in))
  /\ UNCHANGED << fs, IGNORE_DIRS, IGNORE_EXTS, pc, call, caller, repo_path, ignore_dirs,
                  ignore_exts, stack, files_list, procVars, result, san_in, manVars, prev,
                  selVars, cli >>

InitSanitize ==
  /\ fs = MakeFs({ })
  /\ IGNORE_DIRS = DefaultIgnoreDirs
  /\ IGNORE_EXTS = DefaultIgnoreExts
  /\ pc = "idle"
  /\ call = NoCall
  /\ caller = NoCaller
  /\ repo_path = << >>
  /\ ignore_dirs = << >>
  /\ ignore_exts = << >>
  /\ stack = << >>
  /\ files_list = << >>
  /\ all_files = << >>
  /\ idx = 0
  /\ file_count = 0
  /\ skipped_count = 0
  /\ out = NoOut
  /\ log = << >>
  /\ result = NoResult
  /\ san_in \in Strs(MaxLen)
  /\ san_out = NoneV
  /\ man_in = << >>
  /\ man_out = NoneV
  /\ prev = NoneV
  /\ menu = NoMenu
  /\ typed = << >>
  /\ cli = NoCli

NextSanitize == Sanitize

\* sanitize_filename applied to every string of the bound
SpecSanitize == InitSanitize /\ [][NextSanitize]_vars

\* ------------------------------------------- create_manifest, called alone

\* The relative paths given: files at the top and in directories, a file and
\* a directory of one name, a directory and a file named as the sentinel key.
ManifestPaths ==
  { n_a, n_b, << "a", "/", "a" >>, << "a", "/", "b" >>, << "b", "/", "a" >>,
    FILES \o << "/", "a" >>, FILES }

ManifestLists == UNION { [1..k -> ManifestPaths] : k \in 0..MaxPaths }

\* create_manifest(output_dir, all_files) on an empty output directory
CreateManifest ==
  /\ ~man_out.some
  /\ \E mw \in ManifestOutcomes : man_out' = Some(create_manifest(<< >>, man_in, mw))
  /\ UNCHANGED << fs, IGNORE_DIRS, IGNORE_EXTS, pc, call, caller, repo_path, ignore_dirs,
                  ignore_exts, stack, files_list, procVars, result, san_in, san_out, man_in,
                  prev, selVars, cli >>

InitManifest ==
  /\ fs = MakeFs({ })
  /\ IGNORE_DIRS = DefaultIgnoreDirs
  /\ IGNORE_EXTS = DefaultIgnoreExts
  /\ pc = "idle"
  /\ call = NoCall
  /\ caller = NoCaller
  /\ repo_path = << >>
  /\ ignore_dirs = << >>
  /\ ignore_exts = << >>
  /\ stack = << >>
  /\ files_list = << >>
  /\ all_files = << >>
  /\ idx = 0
  /\ file_count = 0
  /\ skipped_count = 0
  /\ out = NoOut
  /\ log = << >>
  /\ result = NoResult
  /\ san_in = << >>
  /\ san_out = NoneV
  /\ man_in \in ManifestLists
  /\ man_out = NoneV
  /\ prev = NoneV
  /\ menu = NoMenu
  /\ typed = << >>
  /\ cli = NoCli

NextManifest == CreateManifest

\* create_manifest applied to every list of the bound
SpecManifest == InitManifest /\ [][NextManifest]_vars


\* ================================================================ claims

\* What is wrong with a root path, read off the file system.
RootViolation(f, path) ==
  IF ~os_path_exists(f, path) THEN "missing"
  ELSE IF ~os_path_isdir(f, path) THEN "not_a_directory"
  ELSE IF ~os_access_R_OK(f, path) THEN "unreadable"
  ELSE "none"

ScanDone == pc = "idle" /\ result.fn = "scan_repository" /\ result.status = "returned"
ScanRaised == pc = "idle" /\ result.fn = "scan_repository" /\ result.status = "raised"

\* The merged ignore sets of the running (or last) call: built-ins and caller's.
MergedDirs == Range(DefaultIgnoreDirs) \cup Range(call.ignore_dirs.v)
MergedExts == Range(DefaultIgnoreExts) \cup Range(call.ignore_exts.v)

\* The root of the call, as the file system knows it.
RootSegs == Resolve(fs, call.repo_path).p

\* A relative path names a file strictly under the root: no segment climbs, and
\* root/<segments> is an entry of the file system that is no directory.
StrictlyUnderRoot(path) ==
  LET segs == split(path, "/") IN
    /\ \A j \in 1..Len(segs) : segs[j] \notin { << >>, Dot, DotDot }
    /\ RootSegs \o segs \in DOMAIN fs
    /\ fs[RootSegs \o segs].type # "dir"

\* s ends with suf, said without endswith
HasSuffix(s, suf) == \E k \in 1..(Len(s) + 1) : SubSeq(s, k, Len(s)) = suf

\* The files under the root none of whose directories is in the merged
\* ignore-directory set, as sequences of names below the root.
UnprunedFiles ==
  { SubSeq(q, Len(RootSegs) + 1, Len(q)) :
      q \in { y \in DOMAIN fs :
                /\ fs[y].type = "file"
                /\ Len(y) > Len(RootSegs)
                /\ IsPrefix(RootSegs, y)
                /\ \A j \in (Len(RootSegs) + 1)..(Len(y) - 1) : y[j] \notin MergedDirs } }

\* ---- C1
\* C1 as stated: no path returned by scan_repository has a segment, the file
\* name included, that is in the merged ignore-directory set, and every
\* returned path lies strictly under the root.
C1_Original ==
  ScanDone =>
    \A i \in 1..Len(result.files) :
      LET segs == split(result.files[i], "/") IN
        /\ \A j \in 1..Len(segs) : segs[j] \notin MergedDirs
        /\ StrictlyUnderRoot(result.files[i])

\* C1 amended: no path returned by scan_repository has a directory segment
\* (any segment before the file name) in the merged ignore-directory set, and
\* every returned path lies strictly under the root; a file whose own name
\* equals an ignored directory name is returned.
C1_Amended ==
  ScanDone =>
    /\ \A i \in 1..Len(result.files) :
         LET segs == split(result.files[i], "/") IN
           /\ \A j \in 1..(Len(segs) - 1) : segs[j] \notin MergedDirs
           /\ StrictlyUnderRoot(result.files[i])
    /\ \A q \in UnprunedFiles :
         (Len(q) = 1 /\ q[1] \in MergedDirs /\ \A x \in MergedExts : ~HasSuffix(q[1], x))
           => InList(q[1], result.files)

\* A scan returned files of directory a while a/env/x, under an ignored
\* directory two levels down, exists.
C1_Witness ==
  /\ ScanDone
  /\ << n_r, n_a, n_env, n_x >> \in DOMAIN fs
  /\ InList(<< "a", "/", "b" >>, result.files)

\* ---- C7
\* C7 as stated: two failed validations of scan_repository for different
\* violations of the root raise errors of different kinds.
C7_Original ==
  [][ (ScanRaised /\ ScanRaised'
        /\ RootViolation(fs, call.repo_path) # RootViolation(fs', call'.repo_path))
      => result.kind # result'.kind ]_vars

\* C7 amended: scan_repository fails exactly when the root is missing, not a
\* directory or unreadable, always with the one kind InvalidRepositoryError;
\* the three violations are told apart by the message only.
C7_Amended ==
  /\ [] /\ ScanRaised => /\ RootViolation(fs, call.repo_path) # "none"
                         /\ result.kind = "InvalidRepositoryError"
        /\ (pc = "scan_walk" \/ ScanDone) => RootViolation(fs, call.repo_path) = "none"
  /\ [][ (ScanRaised /\ ScanRaised'
           /\ RootViolation(fs, call.repo_path) # RootViolation(fs', call'.repo_path))
         => (result.kind = result'.kind /\ result.msg # result'.msg) ]_vars

\* scan_repository raised on a root that exists, is a directory and cannot be read.
C7_Witness ==
  /\ ScanRaised
  /\ RootViolation(fs, call.repo_path) = "unreadable"
  /\ result.msg = "Repository path is not readable"

C3_Sanitize ==
  san_out.some =>
    /\ Len(san_out.v) = Len(san_in)
    /\ \A i \in 1..Len(san_in) :
         /\ san_in[i] \in { "\\", "/", "*", "?", ":", "\"", "<", ">", "|" } => san_out.v[i] = "_"
         /\ san_in[i] \notin { "\\", "/", "*", "?", ":", "\"", "<", ">", "|" } => san_out.v[i] = san_in[i]
         /\ san_out.v[i] # "/"

\* sanitize_filename was applied to a\/ , one character kept and two replaced.
C3_Witness ==
  /\ san_out.some
  /\ san_in = << "a", "\\", "/" >>
  /\ san_out.v = << "a", "_", "_" >>

\* ------------------------------------------- process_repository's claims

ProcCall == call.fn = "process_repository"
ProcDone == pc = "idle" /\ ProcCall /\ result.status = "returned"

\* The paths of the log whose outcome is one of a set.
LogWith(outcomes) == { i \in 1..Len(log) : log[i].outcome \in outcomes }

\* ---- C2
\* C2: with an explicit file_list of n paths, every path is processed in turn
\* whatever happened to the ones before it, and once the loop is over
\* process_repository returns successCount + failureCount = n, failureCount
\* being the number of paths whose read or write raised: no exception leaves
\* it, the refusal of the manifest's file by the operating system apart.
C2_Claim ==
  (ProcCall /\ call.file_list.some) =>
    LET n == Len(call.file_list.v) IN
      /\ \A i \in 1..Len(log) :
           /\ log[i].path = call.file_list.v[i]
           /\ log[i].outcome = "read_failed"
                <=> ~open_read(fs, os_path_join(call.repo_path, log[i].path)).ok
      /\ pc = "proc_list" =>
           /\ idx < n
           /\ Len(log) = idx
           /\ file_count + skipped_count = idx
      /\ (pc = "idle" /\ out.exists /\ result.kind # "OSError") =>
           /\ Len(log) = n
           /\ result.status = "returned"
           /\ result.file_count + result.skipped_count = n
           /\ result.skipped_count
                = Cardinality(LogWith({ "read_failed", "open_failed", "write_failed" }))
           /\ result.file_count = Cardinality(LogWith({ "ok" }))

\* ---- C4
NonManifest == (DOMAIN out.files) \ { n_manifest }

NoSubdirectory == \A name \in DOMAIN out.files : \A i \in 1..Len(name) : name[i] # "/"

ManifestPresent == n_manifest \in DOMAIN out.files /\ out.files[n_manifest].kind = "manifest"

\* The output file name of a path: '/' and the invalid characters as '_'
ExpectedName(path) ==
  [ i \in 1..Len(path) |->
      IF path[i] \in { "/", "\\", "*", "?", ":", "\"", "<", ">", "|" } THEN "_" ELSE path[i] ]

LeadingSpaces(line) ==
  CHOOSE n \in 0..Len(line) :
    /\ \A i \in 1..n : line[i] = " "
    /\ n = Len(line) \/ line[n + 1] # " "

\* The segments segs are found in lines from index `from` on, one level per
\* segment from `level` on, each below the one before it.
RECURSIVE ListedFrom(_, _, _, _)
ListedFrom(lines, segs, level, from) ==
  \E i \in from..Len(lines) :
    /\ lines[i] = [ k \in 1..(4 * level) |-> " " ] \o Head(segs)
    /\ \A m \in from..(i - 1) : LeadingSpaces(lines[m]) >= 4 * level
    /\ Len(segs) = 1 \/ ListedFrom(lines, Tail(segs), level + 1, i + 1)

\* The manifest lists a path: below its two header lines.
Listed(path) == ListedFrom(out.files[n_manifest].lines, split(path, "/"), 0, 3)

\* C5: the manifest of a completed run lists every candidate path (every
\* entry of file_list, every path the walk accepted), the paths whose read or
\* write failed included.
C5_Claim ==
  ProcDone =>
    /\ ManifestPresent
    /\ \A i \in 1..Len(call.file_list.v) : Listed(call.file_list.v[i])
    /\ \A i \in 1..Len(log) : Listed(log[i].path)

\* ---- C6
\* C6: when the root is missing, not a directory or unreadable,
\* process_repository raises InvalidRepositoryError and has created no output
\* directory and written no file.
C6_Claim ==
  (ProcCall /\ RootViolation(fs, call.repo_path) # "none") =>
    /\ pc = "idle"
    /\ result.status = "raised"
    /\ result.kind = "InvalidRepositoryError"
    /\ ~out.exists
    /\ out.files = << >>

\* ---- C8
\* C8: every file process_repository reads for an entry of its list, and
\* every file copied into the output directory, lies under the root.
C8_Claim ==
  (ProcCall /\ call.file_list.some) =>
    /\ \A i \in 1..Len(log) :
         log[i].outcome # "read_failed"
           => (IsPrefix(RootSegs, log[i].src) /\ Len(log[i].src) > Len(RootSegs))
    /\ \A name \in DOMAIN out.files :
         out.files[name].kind = "flat" => IsPrefix(RootSegs, out.files[name].src)

\* ---- C10
\* C10: the list a call works with holds the built-ins and the caller's
\* entries, whatever the caller gave; IGNORE_DIRS and IGNORE_EXTS are as the
\* module was loaded and the caller's lists are as they were passed, during
\* and after every call.
C10_Additive ==
  /\ IGNORE_DIRS = DefaultIgnoreDirs
  /\ IGNORE_EXTS = DefaultIgnoreExts
  /\ caller.ignore_dirs = call.ignore_dirs
  /\ caller.ignore_exts = call.ignore_exts
  /\ caller.file_list = call.file_list
  /\ pc \in { "scan_walk", "proc_list", "proc_walk" } =>
       /\ Range(ignore_dirs) = Range(DefaultIgnoreDirs) \cup Range(call.ignore_dirs.v)
       /\ Range(ignore_exts) = Range(DefaultIgnoreExts) \cup Range(call.ignore_exts.v)

\* process_repository walks with the caller's a and b merged into the
\* built-ins.
C10_Witness ==
  /\ pc = "proc_walk"
  /\ call.ignore_dirs = Some(<< n_a >>)
  /\ call.ignore_exts = Some(<< n_b >>)
  /\ InList(n_a, ignore_dirs)
  /\ InList(n_env, ignore_dirs)
  /\ InList(n_b, ignore_exts)

\* ---- C11
\* The first k segments of a relative path, joined to the root of the call
PrefixPath(path, k) ==
  os_path_join(call.repo_path, join(Slash, SubSeq(split(path, "/"), 1, k)))

\* C11: no directory that is a symbolic link is descended into and no file
\* that is a symbolic link is read: no directory segment of a path that
\* scan_repository returns or process_repository reads is a symbolic link,
\* and no file that process_repository reads is one.
C11_Claim ==
  /\ ScanDone =>
       \A i \in 1..Len(result.files) :
         \A k \in 1..(Len(split(result.files[i], "/")) - 1) :
           ~os_path_islink(fs, PrefixPath(result.files[i], k))
  /\ ProcCall =>
       \A i \in 1..Len(log) :
         log[i].outcome # "read_failed" =>
           \A k \in 1..Len(split(log[i].path, "/")) :
             ~os_path_islink(fs, PrefixPath(log[i].path, k))

\* ---- C12
\* The entries of the log that created the output file of entry i.
Writers(i) ==
  { k \in LogWith({ "ok", "write_failed" }) :
      ExpectedName(log[k].path) = ExpectedName(log[i].path) }

\* C12: when two distinct paths of file_list have the same output file name
\* and each was read and written, process_repository does not raise (the
\* refusal of the manifest's file by the operating system apart), has counted
\* both as successes, and the output file holds the header and the content of
\* the last of the paths that wrote it.
C12_Claim ==
  (ProcCall /\ call.file_list.some /\ pc = "idle" /\ out.exists /\ result.kind # "OSError") =>
    \A i, j \in LogWith({ "ok" }) :
      (i < j /\ log[i].path # log[j].path
         /\ ExpectedName(log[i].path) = ExpectedName(log[j].path))
      => /\ result.status = "returned"
         /\ result.file_count = Cardinality(LogWith({ "ok" }))
         /\ result.skipped_count = 0 => result.file_count = Len(call.file_list.v)
         /\ LET last == CHOOSE k \in Writers(j) : \A m \in Writers(j) : m <= k
                name == ExpectedName(log[j].path)
            IN /\ name \in DOMAIN out.files
               /\ out.files[name].kind = "flat"
               /\ out.files[name].header = log[last].path
               /\ out.files[name].src = log[last].src

\* ------------------------------------------------ create_manifest's claims

\* create_manifest was called alone and the operating system let it write.
ManifestCalled == man_out.some /\ man_out.v.err.kind # "OSError"

\* The lines of the manifest it wrote
ManifestText == man_out.v.files[n_manifest].lines

SegsOf(l) == [ i \in 1..Len(l) |-> split(l[i], "/") ]

\* The names of the files of list l in the directory `prefix`, one per entry
LeavesAt(l, prefix) ==
  LET at == SelectSeq(SegsOf(l), LAMBDA sg : Len(sg) = Len(prefix) + 1 /\ IsPrefix(prefix, sg))
  IN [ i \in 1..Len(at) |-> at[i][Len(prefix) + 1] ]

\* The names of the directories of list l in the directory `prefix`
DirsAt(l, prefix) ==
  { sg[Len(prefix) + 1] : sg \in { y \in Range(SegsOf(l)) : Len(y) > Len(prefix) + 1 /\ IsPrefix(prefix, y) } }

\* The rendering the format prescribes for the directory `prefix`
RECURSIVE Rendered(_, _)
RECURSIVE RenderedDirs(_, _, _)
Rendered(l, prefix) ==
  LET leaves == sorted(LeavesAt(l, prefix))
  IN [ i \in 1..Len(leaves) |-> [ k \in 1..(4 * Len(prefix)) |-> " " ] \o leaves[i] ]
       \o RenderedDirs(l, prefix, SortSet(DirsAt(l, prefix)))

RenderedDirs(l, prefix, dirs) ==
  IF dirs = << >> THEN << >>
  ELSE << [ k \in 1..(4 * Len(prefix)) |-> " " ] \o Head(dirs) >>
         \o Rendered(l, Append(prefix, Head(dirs)))
         \o RenderedDirs(l, prefix, Tail(dirs))

\* ---- C13
\* C13: the manifest is the line 'Repository structure:', an empty line, and
\* the tree of the paths depth-first: at every directory its file names in
\* ascending order, indented by 4 spaces per level, then each of its
\* directories in ascending order at the same indentation, each followed at
\* once by its own rendering one level deeper.
C13_Claim ==
  ManifestCalled =>
    /\ man_out.v.err = NoError
    /\ ManifestText
         = << << "R", "e", "p", "o", "s", "i", "t", "o", "r", "y", " ",
                 "s", "t", "r", "u", "c", "t", "u", "r", "e", ":" >>, << >> >>
             \o Rendered(man_in, << >>)

\* ---- C14
\* The orderings of a list
Orderings(l) == { [ i \in 1..Len(l) |-> l[q[i]] ] : q \in Perms(1..Len(l)) }

\* C14: create_manifest writes the same manifest text for every ordering of
\* the paths it is given (and raises for all of them or for none).
C14_OrderIndependent ==
  ManifestCalled =>
    \A q \in Orderings(man_in) :
      LET other == create_manifest(<< >>, q, "ok") IN
        /\ other.files[n_manifest].lines = ManifestText
        /\ (other.err = NoError) <=> (man_out.v.err = NoError)

\* create_manifest was given b, a/b, a in this order and wrote a, b, a, b.
C14_Witness ==
  /\ ManifestCalled
  /\ man_in = << n_b, << "a", "/", "b" >>, n_a >>
  /\ ManifestText = ManifestHeader \o << n_a, n_b, n_a, << " ", " ", " ", " ", "b" >> >>

\* ---- C15
\* The depth of line i of a manifest and the name on it
DepthOf(lines, i) == LeadingSpaces(lines[i]) \div 4
NameOf(lines, i) == SubSeq(lines[i], LeadingSpaces(lines[i]) + 1, Len(lines[i]))

\* A line is a directory when the next line is indented deeper, else a leaf.
IsLeafLine(lines, i) == i = Len(lines) \/ DepthOf(lines, i + 1) <= DepthOf(lines, i)

\* The line of depth d that line i is below: the last one before it
AncestorLine(lines, i, d) ==
  CHOOSE j \in 3..(i - 1) :
    /\ DepthOf(lines, j) = d
    /\ \A m \in (j + 1)..(i - 1) : DepthOf(lines, m) # d

\* The paths read back from the indentation of a manifest, header apart
ParsedPaths(lines) ==
  { join(Slash, [ d \in 1..DepthOf(lines, i) |-> NameOf(lines, AncestorLine(lines, i, d - 1)) ]
                  \o << NameOf(lines, i) >>) :
      i \in { k \in 3..Len(lines) : IsLeafLine(lines, k) } }

\* C15: the paths read back from the manifest that create_manifest wrote are
\* the paths it was given.
C15_Claim ==
  ManifestCalled => ParsedPaths(ManifestText) = Range(man_in)

\* ---- C19
\* C19: create_manifest raises for no list of relative paths and lists every
\* path it was given, also when a directory or a file is named '__files__'.
C19_Claim ==
  ManifestCalled =>
    /\ man_out.v.err = NoError
    /\ \A i \in 1..Len(man_in) : ListedFrom(ManifestText, split(man_in[i], "/"), 0, 3)

\* ---- C16
\* The second of two runs with the same arguments has ended, and the operating
\* system answered it as it answered the first: the same paths were processed
\* with the same outcomes (in the same order when they were listed by the
\* caller), and it refused the output directory or the manifest in both runs
\* or in neither.
SecondRunEnded ==
  /\ prev.some
  /\ ProcCall
  /\ pc = "idle"
  /\ result.status # "none"
  /\ IF call.file_list.some THEN log = prev.v.log ELSE Range(log) = Range(prev.v.log)
  /\ (result.kind \in { "OSError", "OutputDirectoryError" }
        \/ prev.v.result.kind \in { "OSError", "OutputDirectoryError" })
       => result.kind = prev.v.result.kind

\* C16: two runs of process_repository with the same arguments on the same
\* repository, each on an empty output directory, leave the same output files
\* with the same contents and the same manifest, and return the same counts.
C16_Idempotent ==
  SecondRunEnded =>
    /\ call = prev.v.call
    /\ out = prev.v.out
    /\ result = prev.v.result

\* Two runs walked a repository with a_b and the link l at its top, listed in
\* different orders, and returned twice (2, 0) and the same files.
C16_Witness ==
  /\ SecondRunEnded
  /\ ~call.file_list.some
  /\ result.status = "returned"
  /\ result.file_count = 2
  /\ log # prev.v.log
  /\ DOMAIN out.files = { n_a_b, n_l, n_manifest }

WalkAfterListEnded ==
  /\ prev.some
  /\ prev.v.call.file_list.some
  /\ ProcCall
  /\ ~call.file_list.some
  /\ pc = "idle"
  /\ result.status # "none"
  /\ \A i \in 1..Len(log), j \in 1..Len(prev.v.log) :
       log[i].path = prev.v.log[j].path => log[i].outcome = prev.v.log[j].outcome
  /\ (result.kind \in { "OSError", "OutputDirectoryError" }
        \/ prev.v.result.kind \in { "OSError", "OutputDirectoryError" })
       => result.kind = prev.v.result.kind

\* C18: process_repository walking by itself and process_repository given the
\* list scan_repository returns for the same root and ignore lists process the
\* same set of paths, return the same counts, write the same manifest and leave
\* output files of the same names.
C18_Claim ==
  WalkAfterListEnded =>
    /\ result.kind # "OutputDirectoryError"
         => { log[i].path : i \in 1..Len(log) } = Range(prev.v.call.file_list.v)
    /\ result.status = prev.v.result.status
    /\ result.file_count = prev.v.result.file_count
    /\ result.skipped_count = prev.v.result.skipped_count
    /\ DOMAIN out.files = DOMAIN prev.v.out.files
    /\ n_manifest \in DOMAIN out.files => out.files[n_manifest] = prev.v.out.files[n_manifest]

\* ---- C20
\* What a line asks for, as the menu describes it: done, quit, all, none, the
\* toggle of files #lo to #hi, or nothing that touches the selection (show,
\* page, an unknown or malformed command).
Meaning(line) ==
  IF line \in { Line.d, Line.DONE } THEN [op |-> "done", lo |-> 0, hi |-> 0]
  ELSE IF line = Line.q THEN [op |-> "quit", lo |-> 0, hi |-> 0]
  ELSE IF line = Line.a THEN [op |-> "all", lo |-> 0, hi |-> 0]
  ELSE IF line = Line.none THEN [op |-> "none", lo |-> 0, hi |-> 0]
  ELSE IF line = Line.t1 THEN [op |-> "toggle", lo |-> 1, hi |-> 1]
  ELSE IF line = Line.toggle2 THEN [op |-> "toggle", lo |-> 2, hi |-> 2]
  ELSE IF line = Line.t0 THEN [op |-> "toggle", lo |-> 0, hi |-> 0]
  ELSE IF line = Line.r12 THEN [op |-> "toggle", lo |-> 1, hi |-> 2]
  ELSE IF line = Line.range23 THEN [op |-> "toggle", lo |-> 2, hi |-> 3]
  ELSE IF line = Line.r21 THEN [op |-> "toggle", lo |-> 2, hi |-> 1]
  ELSE [op |-> "other", lo |-> 0, hi |-> 0]

\* File #i is selected after the lines typed: the last all or none (all, when
\* there was neither) and an even or odd number of in-range toggles of it since.
ExpectedSelected(i) ==
  LET n == Len(menu.files_list)
      resets == { j \in 1..Len(typed) : Meaning(typed[j]).op \in { "all", "none" } }
      r == IF resets = { } THEN 0 ELSE CHOOSE j \in resets : \A k \in resets : k <= j
      base == r = 0 \/ Meaning(typed[r]).op = "all"
      toggles == { j \in (r + 1)..Len(typed) :
                     LET c == Meaning(typed[j]) IN
                       /\ c.op = "toggle"
                       /\ 1 <= c.lo /\ c.lo <= c.hi /\ c.hi <= n
                       /\ c.lo <= i /\ i <= c.hi }
  IN base <=> (Cardinality(toggles) % 2 = 0)

\* The selected files, in the order of the list
ExpectedFiles ==
  LET n == Len(menu.files_list)
      picked == SelectSeq([ i \in 1..n |-> i ], LAMBDA i : ExpectedSelected(i))
  IN [ k \in 1..Len(picked) |-> menu.files_list[picked[k]] ]

\* C20: called with a non-empty list, interactive_file_selection starts with
\* every file selected; after any lines typed a file is selected iff the all
\* and none resets and the in-range toggles so far leave it so; it returns
\* only on 'done' typed while a file is selected, and then returns the
\* selected files in the order of the list.
C20_Selection ==
  menu.files_list # << >> =>
    /\ typed = << >> => \A i \in DOMAIN menu.selected : menu.selected[i]
    /\ DOMAIN menu.selected = 0..(Len(menu.files_list) - 1)
    /\ \A i \in 1..Len(menu.files_list) : menu.selected[i - 1] = ExpectedSelected(i)
    /\ menu.returned.some =>
         /\ menu.pc = "returned"
         /\ typed # << >>
         /\ Meaning(typed[Len(typed)]).op = "done"
         /\ menu.returned.v # << >>
         /\ menu.returned.v = ExpectedFiles
    /\ (typed # << >> /\ Meaning(typed[Len(typed)]).op = "done" /\ ExpectedFiles # << >>)
         => menu.pc = "returned"

\* Of the list b, a: none, toggle 2 and done were typed, and a was returned.
C20_Witness ==
  /\ menu.pc = "returned"
  /\ menu.files_list = << n_b, n_a >>
  /\ typed = << Line.none, Line.toggle2, Line.DONE >>
  /\ menu.returned = Some(<< n_a >>)

\* ---- C21
\* C21: for a repository that exists, is a directory and can be read, main
\* without --dry-run and --interactive calls the core with arguments it
\* accepts and does not take the error exit.
C21_Claim ==
  (/\ cli.pc # "idle"
   /\ cli.status # 130
   /\ ~cli.args.dry_run
   /\ ~cli.args.interactive
   /\ ScanValidate(fs, cli.args.repo_path) = NoError)
    => /\ cli.error.kind # "TypeError"
       /\ cli.status # 1

====
